---- MODULE Spec2Model ----
(***************************************************************************)
(* APIHive: the request resolution and execution pipeline.                 *)
(*                                                                         *)
(* Renderer: App.handleSend with the helpers of utils (applyVariables,     *)
(* buildUrl, buildHeaders, isValidHttpUrl); main process: the              *)
(* "http:request" IPC handler.                                             *)
(*                                                                         *)
(* Text is a sequence of symbols.  A symbol stands for a fixed piece of    *)
(* text: one character ("a", "{", "?", " ") or an atomic chunk whose       *)
(* inside the code never looks into ("https://h/", "Content-Type").        *)
(***************************************************************************)
EXTENDS Integers, Sequences, FiniteSets, TLC

\* -------------------------------------------------------------------------
\* Text
\* -------------------------------------------------------------------------

\* JS undefined: an absent body, an absent payload field, vars[key] of a
\* name that is not in the map.
NoValue == <<"<undefined>">>

\* \s of the placeholder pattern and of String.prototype.trim.
WhiteSyms == {" "}

\* [\w.-] of the placeholder pattern: symbols made only of word characters,
\* dots and hyphens.
WordSyms == {"a", "b", "x", "y", "k", "v", "t", "u", "p", "1", "2",
             "Content-Type", "Authorization", "X-Key", "Accept"}

\* Absolute URL prefixes (scheme, host and the slash that ends the host) and
\* the protocol new URL(...) reports for them.
OriginSyms == {"https://h/", "http://h/", "ftp://h/"}

OriginProtocol(sym) ==
  CASE sym = "https://h/" -> "https:"
    [] sym = "http://h/" -> "http:"
    [] sym = "ftp://h/" -> "ftp:"

RECURSIVE Flatten(_)
Flatten(ss) == IF ss = <<>> THEN <<>> ELSE Head(ss) \o Flatten(Tail(ss))

\* Array.prototype.join
RECURSIVE Join(_, _)
Join(ss, sep) ==
  IF ss = <<>> THEN <<>>
  ELSE IF Len(ss) = 1 THEN ss[1]
  ELSE ss[1] \o sep \o Join(Tail(ss), sep)

\* String.prototype.includes / indexOf for a one-symbol needle (0: absent)
Includes(s, sym) == \E i \in 1..Len(s) : s[i] = sym

IndexOf(s, sym) ==
  IF Includes(s, sym)
  THEN CHOOSE i \in 1..Len(s) : s[i] = sym /\ \A j \in 1..(i - 1) : s[j] # sym
  ELSE 0

\* String.prototype.trim
Trim(s) ==
  IF \A i \in 1..Len(s) : s[i] \in WhiteSyms THEN <<>>
  ELSE LET first == CHOOSE i \in 1..Len(s) :
                      s[i] \notin WhiteSyms /\ \A j \in 1..(i - 1) : s[j] \in WhiteSyms
           last == CHOOSE i \in 1..Len(s) :
                      s[i] \notin WhiteSyms /\ \A j \in (i + 1)..Len(s) : s[j] \in WhiteSyms
       IN SubSeq(s, first, last)

\* The first position >= i whose symbol is not in Class (Len(s) + 1: none).
SkipClass(s, i, Class) ==
  CHOOSE j \in i..(Len(s) + 1) :
    /\ \A k \in i..(j - 1) : s[k] \in Class
    /\ (j = Len(s) + 1 \/ s[j] \notin Class)

\* /{{\s*([\w.-]+)\s*}}/ anchored at i: [from, to] of the captured name and
\* the position of the last brace; end = 0 when there is no match at i.  The
\* three classes and the brace are disjoint, so the greedy scan is the only
\* way the pattern can match.
MatchAt(s, i) ==
  LET open == i + 1 <= Len(s) /\ s[i] = "{" /\ s[i + 1] = "{"
      j == SkipClass(s, i + 2, WhiteSyms)
      k == SkipClass(s, j, WordSyms)
      l == SkipClass(s, k, WhiteSyms)
  IN IF open /\ k > j /\ l + 1 <= Len(s) /\ s[l] = "}" /\ s[l + 1] = "}"
     THEN [from |-> j, to |-> k - 1, end |-> l + 1]
     ELSE [from |-> 0, to |-> 0, end |-> 0]

\* Mutant: a name that is not in the map keeps its placeholder.
Lookup_KeepUnknown(vars, key) ==
  IF key \in DOMAIN vars THEN vars[key] ELSE <<"{", "{">> \o key \o <<"}", "}">>

\* Mutant: a value that is itself the placeholder of a name is looked up
\* again.
Lookup_Chained(vars, key) ==
  IF key \notin DOMAIN vars THEN <<>>
  ELSE LET value == vars[key]
       IN IF Len(value) = 5 /\ SubSeq(value, 1, 2) = <<"{", "{">>
             /\ SubSeq(value, 4, 5) = <<"}", "}">>
          THEN (IF <<value[3]>> \in DOMAIN vars THEN vars[<<value[3]>>] ELSE <<>>)
          ELSE value

\* vars[key] ?? ""
Lookup(vars, key) == IF key \in DOMAIN vars THEN vars[key] ELSE <<>>

RECURSIVE ReplaceFrom(_, _, _)
ReplaceFrom(s, i, vars) ==
  IF i > Len(s) THEN <<>>
  ELSE LET m == MatchAt(s, i)
       IN IF m.end > 0
          THEN Lookup(vars, SubSeq(s, m.from, m.to)) \o ReplaceFrom(s, m.end + 1, vars)
          ELSE <<s[i]>> \o ReplaceFrom(s, i + 1, vars)

\* Mutant: the text is scanned again after the replacement.
applyVariables_Rescan(input, vars) ==
  ReplaceFrom(ReplaceFrom(input, 1, vars), 1, vars)

applyVariables(input, vars) == ReplaceFrom(input, 1, vars)

\* encodeURIComponent, symbol by symbol: the unreserved characters stay, the
\* others become their %XX escapes.
EncodeSym(sym) ==
  CASE sym = " " -> <<"%20">>
    [] sym = "{" -> <<"%7B">>
    [] sym = "}" -> <<"%7D">>
    [] sym = "?" -> <<"%3F">>
    [] sym = "#" -> <<"%23">>
    [] sym = "&" -> <<"%26">>
    [] sym = "=" -> <<"%3D">>
    [] sym = ":" -> <<"%3A">>
    [] sym = "/" -> <<"%2F">>
    [] sym = "https://h/" -> <<"https", "%3A", "%2F", "%2F", "h", "%2F">>
    [] sym = "http://h/" -> <<"http", "%3A", "%2F", "%2F", "h", "%2F">>
    [] sym = "ftp://h/" -> <<"ftp", "%3A", "%2F", "%2F", "h", "%2F">>
    [] OTHER -> <<sym>>

encodeURIComponent(s) == Flatten([i \in 1..Len(s) |-> EncodeSym(s[i])])

\* TextEncoder().encode(text).byteLength: UTF-8 bytes per symbol.
RECURSIVE byteLength(_)
byteLength(s) ==
  IF s = <<>> THEN 0
  ELSE (IF Head(s) = "e-acute" THEN 2 ELSE 1) + byteLength(Tail(s))

\* btoa: base64 of the Latin-1 bytes of the text.
B64Chars ==
  <<"A", "B", "C", "D", "E", "F", "G", "H", "I", "J", "K", "L", "M", "N", "O", "P",
    "Q", "R", "S", "T", "U", "V", "W", "X", "Y", "Z", "a", "b", "c", "d", "e", "f",
    "g", "h", "i", "j", "k", "l", "m", "n", "o", "p", "q", "r", "s", "t", "u", "v",
    "w", "x", "y", "z", "0", "1", "2", "3", "4", "5", "6", "7", "8", "9", "+", "/">>

CharCode(sym) ==
  CASE sym = " " -> 32
    [] sym = "1" -> 49
    [] sym = "2" -> 50
    [] sym = ":" -> 58
    [] sym = "a" -> 97
    [] sym = "b" -> 98
    [] sym = "k" -> 107
    [] sym = "p" -> 112
    [] sym = "t" -> 116
    [] sym = "u" -> 117
    [] sym = "v" -> 118
    [] sym = "x" -> 120
    [] sym = "y" -> 121
    [] sym = "{" -> 123
    [] sym = "}" -> 125

B64Group(b) ==
  LET n == b[1] * 65536 + (IF Len(b) >= 2 THEN b[2] * 256 ELSE 0)
                        + (IF Len(b) >= 3 THEN b[3] ELSE 0)
  IN << B64Chars[(n \div 262144) + 1],
        B64Chars[((n \div 4096) % 64) + 1],
        IF Len(b) >= 2 THEN B64Chars[((n \div 64) % 64) + 1] ELSE "=",
        IF Len(b) >= 3 THEN B64Chars[(n % 64) + 1] ELSE "=" >>

RECURSIVE B64(_)
B64(bytes) ==
  IF bytes = <<>> THEN <<>>
  ELSE IF Len(bytes) <= 3 THEN B64Group(bytes)
  ELSE B64Group(SubSeq(bytes, 1, 3)) \o B64(SubSeq(bytes, 4, Len(bytes)))

btoa(s) == B64([i \in 1..Len(s) |-> CharCode(s[i])])

\* -------------------------------------------------------------------------
\* utils: buildUrl, buildHeaders, isValidHttpUrl
\* -------------------------------------------------------------------------

\* Mutant: the enabled flag of a row is not looked at.
Selected_IgnoreEnabled(items) ==
  LET Keep(item) == Len(Trim(item.key)) > 0
  IN SelectSeq(items, Keep)

\* A KeyValue row is [key, value, enabled]; its id only keys the table rows.
Selected(items) ==
  LET Keep(item) == item.enabled /\ Len(Trim(item.key)) > 0
  IN SelectSeq(items, Keep)

QueryPair(item, vars) ==
  encodeURIComponent(applyVariables(Trim(item.key), vars)) \o <<"=">>
    \o encodeURIComponent(applyVariables(item.value, vars))

\* Mutant: the pairs are emitted last row first.
buildUrl_Reversed(url, params, vars) ==
  LET baseUrl == applyVariables(url, vars)
      queryPairs == Selected(params)
      n == Len(queryPairs)
      query == Join([i \in 1..n |-> QueryPair(queryPairs[n + 1 - i], vars)], <<"&">>)
      hashIndex == IndexOf(baseUrl, "#")
      withoutHash == IF hashIndex >= 1 THEN SubSeq(baseUrl, 1, hashIndex - 1) ELSE baseUrl
      hash == IF hashIndex >= 1 THEN SubSeq(baseUrl, hashIndex, Len(baseUrl)) ELSE <<>>
      separator == IF Includes(withoutHash, "?") THEN <<"&">> ELSE <<"?">>
  IN IF n = 0 THEN baseUrl
     ELSE withoutHash \o separator \o query \o hash

\* Mutant: the query block goes to the end of the URL, after the fragment.
buildUrl_AppendAtEnd(url, params, vars) ==
  LET baseUrl == applyVariables(url, vars)
      queryPairs == Selected(params)
      query == Join([i \in 1..Len(queryPairs) |-> QueryPair(queryPairs[i], vars)], <<"&">>)
      separator == IF Includes(baseUrl, "?") THEN <<"&">> ELSE <<"?">>
  IN IF Len(queryPairs) = 0 THEN baseUrl
     ELSE baseUrl \o separator \o query

buildUrl(url, params, vars) ==
  LET baseUrl == applyVariables(url, vars)
      queryPairs == Selected(params)
      query == Join([i \in 1..Len(queryPairs) |-> QueryPair(queryPairs[i], vars)], <<"&">>)
      hashIndex == IndexOf(baseUrl, "#")
      withoutHash == IF hashIndex >= 1 THEN SubSeq(baseUrl, 1, hashIndex - 1) ELSE baseUrl
      hash == IF hashIndex >= 1 THEN SubSeq(baseUrl, hashIndex, Len(baseUrl)) ELSE <<>>
      separator == IF Includes(withoutHash, "?") THEN <<"&">> ELSE <<"?">>
  IN IF Len(queryPairs) = 0 THEN baseUrl
     ELSE withoutHash \o separator \o query \o hash

\* resolved[key] = value on a Record<string, string>
Put(map, key, value) ==
  [k \in DOMAIN map \cup {key} |-> IF k = key THEN value ELSE map[k]]

EmptyMap == [k \in {} |-> <<>>]

\* Mutant: a key that is already in the map keeps its value.
RECURSIVE PutHeaders_FirstWins(_, _, _)
PutHeaders_FirstWins(resolved, items, vars) ==
  IF items = <<>> THEN resolved
  ELSE LET key == applyVariables(Trim(Head(items).key), vars)
       IN PutHeaders_FirstWins(
            IF key \in DOMAIN resolved THEN resolved
            ELSE Put(resolved, key, applyVariables(Head(items).value, vars)),
            Tail(items), vars)

\* Mutant: the header rows are written as typed.
RECURSIVE PutHeaders_Raw(_, _, _)
PutHeaders_Raw(resolved, items, vars) ==
  IF items = <<>> THEN resolved
  ELSE PutHeaders_Raw(Put(resolved, Trim(Head(items).key), Head(items).value),
                      Tail(items), vars)

RECURSIVE PutHeaders(_, _, _)
PutHeaders(resolved, items, vars) ==
  IF items = <<>> THEN resolved
  ELSE PutHeaders(Put(resolved,
                      applyVariables(Trim(Head(items).key), vars),
                      applyVariables(Head(items).value, vars)),
                  Tail(items), vars)

AuthHeaders(resolved, auth) ==
  LET basic == IF auth.type = "basic"
               THEN Put(resolved, <<"Authorization">>,
                        <<"Basic ">> \o btoa(auth.username \o <<":">> \o auth.password))
               ELSE resolved
      bearer == IF auth.type = "bearer"
                THEN Put(basic, <<"Authorization">>, <<"Bearer ">> \o auth.token)
                ELSE basic
  IN IF auth.type = "apiKey" /\ auth.addTo = "header"
     THEN Put(bearer, auth.key, auth.value)
     ELSE bearer

\* Mutant: the auth headers are written first and the explicit headers over
\* them.
buildHeaders_AuthFirst(headers, auth, vars) ==
  PutHeaders(AuthHeaders(EmptyMap, auth), Selected(headers), vars)

\* Mutant: the auth fields go through applyVariables like the header rows.
buildHeaders_AuthResolved(headers, auth, vars) ==
  AuthHeaders(PutHeaders(EmptyMap, Selected(headers), vars),
              [f \in DOMAIN auth |->
                 IF f \in {"type", "addTo"} THEN auth[f]
                 ELSE applyVariables(auth[f], vars)])

buildHeaders(headers, auth, vars) ==
  AuthHeaders(PutHeaders(EmptyMap, Selected(headers), vars), auth)

\* new URL(text).protocol, "throws" when the text has no scheme.  Text that
\* starts with an origin symbol parses whatever follows it (path, query and
\* fragment accept every symbol of the model).
UrlProtocol(text) ==
  IF text # <<>> /\ text[1] \in OriginSyms THEN OriginProtocol(text[1]) ELSE "throws"

isValidHttpUrl(s) ==
  LET trimmed == Trim(s)
  IN IF trimmed = <<>> THEN FALSE
     ELSE UrlProtocol(trimmed) \in {"http:", "https:"}

\* -------------------------------------------------------------------------
\* App.handleSend: body selection, header merge, dispatch URL, payload
\* -------------------------------------------------------------------------

\* Mutant: the form fields are encoded as typed, without applyVariables.
FormBody_Raw(fields, vars) ==
  LET chosen == Selected(fields)
  IN Join([i \in 1..Len(chosen) |->
             encodeURIComponent(Trim(chosen[i].key)) \o <<"=">>
               \o encodeURIComponent(chosen[i].value)], <<"&">>)

\* request.formDataFields is optional: [present, items].
FormBody(fields, vars) ==
  LET chosen == Selected(fields)
  IN Join([i \in 1..Len(chosen) |-> QueryPair(chosen[i], vars)], <<"&">>)

\* Mutant: the method is not looked at.
SelectBody_AnyMethod(req, vars) ==
  IF req.bodyType = "json" /\ Len(Trim(req.body)) > 0
  THEN [body |-> req.body, contentType |-> <<"application/json">>]
  ELSE IF /\ req.bodyType = "form-data"
          /\ req.formDataFields.present
          /\ Len(req.formDataFields.items) > 0
  THEN [body |-> FormBody(req.formDataFields.items, vars),
        contentType |-> <<"application/x-www-form-urlencoded">>]
  ELSE IF req.bodyType = "text" /\ Trim(req.body) # <<>>
  THEN [body |-> req.body, contentType |-> NoValue]
  ELSE [body |-> NoValue, contentType |-> NoValue]

\* Mutant: the json body goes through applyVariables.
SelectBody_JsonResolved(req, vars) ==
  IF req.method \notin {"GET", "HEAD"}
  THEN IF req.bodyType = "json" /\ Len(Trim(req.body)) > 0
       THEN [body |-> applyVariables(req.body, vars),
             contentType |-> <<"application/json">>]
       ELSE IF /\ req.bodyType = "form-data"
               /\ req.formDataFields.present
               /\ Len(req.formDataFields.items) > 0
       THEN [body |-> FormBody(req.formDataFields.items, vars),
             contentType |-> <<"application/x-www-form-urlencoded">>]
       ELSE IF req.bodyType = "text" /\ Trim(req.body) # <<>>
       THEN [body |-> req.body, contentType |-> NoValue]
       ELSE [body |-> NoValue, contentType |-> NoValue]
  ELSE [body |-> NoValue, contentType |-> NoValue]

\* The body handed to the transport and the Content-Type written with it
\* (NoValue: none).
SelectBody(req, vars) ==
  IF req.method \notin {"GET", "HEAD"}
  THEN IF req.bodyType = "json" /\ Len(Trim(req.body)) > 0
       THEN [body |-> req.body, contentType |-> <<"application/json">>]
       ELSE IF /\ req.bodyType = "form-data"
               /\ req.formDataFields.present
               /\ Len(req.formDataFields.items) > 0
       THEN [body |-> FormBody(req.formDataFields.items, vars),
             contentType |-> <<"application/x-www-form-urlencoded">>]
       ELSE IF req.bodyType = "text" /\ Trim(req.body) # <<>>
       THEN [body |-> req.body, contentType |-> NoValue]
       ELSE [body |-> NoValue, contentType |-> NoValue]
  ELSE [body |-> NoValue, contentType |-> NoValue]

\* Mutant: the Content-Type of the body is the default that the composed
\* headers override.
MergedHeaders_UserWins(req, vars) ==
  LET built == buildHeaders(req.headers, req.auth, vars)
      chosen == SelectBody(req, vars)
  IN IF chosen.contentType # NoValue
     THEN [k \in DOMAIN built \cup {<<"Content-Type">>} |->
             IF k \in DOMAIN built THEN built[k] ELSE chosen.contentType]
     ELSE built

\* mergedHeaders as it is when the payload is built.
MergedHeaders(req, vars) ==
  LET built == buildHeaders(req.headers, req.auth, vars)
      chosen == SelectBody(req, vars)
  IN IF chosen.contentType # NoValue
     THEN Put(built, <<"Content-Type">>, chosen.contentType)
     ELSE built

\* let url = resolvedUrl; the apiKey pair is appended for addTo = "query".
DispatchUrl(req, resolved) ==
  IF req.auth.type = "apiKey" /\ req.auth.addTo = "query"
  THEN resolved \o (IF Includes(resolved, "?") THEN <<"&">> ELSE <<"?">>)
         \o encodeURIComponent(req.auth.key) \o <<"=">>
         \o encodeURIComponent(req.auth.value)
  ELSE resolved

Payload(req, resolved, vars) ==
  [kind |-> "object",
   url |-> DispatchUrl(req, resolved),
   method |-> req.method,
   headers |-> MergedHeaders(req, vars),
   body |-> SelectBody(req, vars).body]

\* The three records handleSend builds itself.
ApiMissingResponse ==
  [status |-> 0, statusText |-> "Error", headers |-> EmptyMap,
   body |-> <<"API not available. Restart the app.">>, duration |-> 0, size |-> 0]

InvalidUrlResponse ==
  [status |-> 0, statusText |-> "Invalid URL", headers |-> EmptyMap,
   body |-> <<"Enter a valid http or https URL.">>, duration |-> 0, size |-> 0]

\* error instanceof Error ? error.message : "Unknown error"
CaughtResponse(error) ==
  [status |-> 0, statusText |-> "Request failed", headers |-> EmptyMap,
   body |-> IF error.isError THEN error.message ELSE <<"Unknown error">>,
   duration |-> 0, size |-> 0]

\* -------------------------------------------------------------------------
\* Main process: ipcMain.handle("http:request")
\* -------------------------------------------------------------------------

ALLOWED_METHODS == {"GET", "POST", "PUT", "PATCH", "DELETE", "HEAD", "OPTIONS"}

ALLOWED_PROTOCOLS == {"http:", "https:"}

\* A payload field that is there but is not a string.
NotAString == <<"<number>">>

NoMethod == "<undefined>"

\* String.prototype.toUpperCase on the method names of the model.
toUpperCase(m) ==
  CASE m = "get" -> "GET"
    [] m = "post" -> "POST"
    [] m = "trace" -> "TRACE"
    [] OTHER -> m

normalizedMethod(payload) ==
  IF payload.method = NoMethod THEN "GET" ELSE toUpperCase(payload.method)

\* Mutant: the method is not checked.
HandlerRefusal_NoMethodCheck(payload) ==
  IF payload.kind # "object" THEN <<"Missing or invalid payload.">>
  ELSE IF payload.url = NoValue \/ payload.url = NotAString \/ Trim(payload.url) = <<>>
  THEN <<"URL is required.">>
  ELSE IF UrlProtocol(Trim(payload.url)) = "throws"
  THEN <<"Invalid URL format.">>
  ELSE IF UrlProtocol(Trim(payload.url)) \notin ALLOWED_PROTOCOLS
  THEN <<"Only http and https URLs are allowed.">>
  ELSE NoValue

\* The message of the check that stops the request before fetch; NoValue
\* when the request passes all of them.
HandlerRefusal(payload) ==
  IF payload.kind # "object" THEN <<"Missing or invalid payload.">>
  ELSE IF payload.url = NoValue \/ payload.url = NotAString \/ Trim(payload.url) = <<>>
  THEN <<"URL is required.">>
  ELSE IF UrlProtocol(Trim(payload.url)) = "throws"
  THEN <<"Invalid URL format.">>
  ELSE IF UrlProtocol(Trim(payload.url)) \notin ALLOWED_PROTOCOLS
  THEN <<"Only http and https URLs are allowed.">>
  ELSE IF normalizedMethod(payload) \notin ALLOWED_METHODS
  THEN <<"Unsupported method: ", payload.method>>
  ELSE NoValue

\* A headers field that is missing or is not a plain object.
NoHeaders == [k \in {NoValue} |-> NoValue]

normalizedHeaders(payload) ==
  IF payload.headers = NoHeaders THEN EmptyMap ELSE payload.headers

\* What the handler passes to fetch.
FetchArgs(payload) ==
  [url |-> Trim(payload.url),
   method |-> normalizedMethod(payload),
   headers |-> normalizedHeaders(payload),
   body |-> IF payload.body # NoValue /\ Len(payload.body) > 0
            THEN payload.body ELSE NoValue]

\* Mutant: a failed fetch is tried once more.
FetchAttempts_Retry(payload, outcome) ==
  IF HandlerRefusal(payload) = NoValue
  THEN (IF outcome.kind = "throws" THEN 2 ELSE 1)
  ELSE 0

\* Number of fetch calls of one handler invocation.
FetchAttempts(payload, outcome) ==
  IF HandlerRefusal(payload) = NoValue THEN 1 ELSE 0

\* Mutant: the catch block keeps the message but reports it as a response of
\* the server would be reported, with the status text of the pre-dispatch
\* failures.
httpRequest_WrongShape(payload, outcome, elapsed) ==
  IF HandlerRefusal(payload) # NoValue
  THEN [status |-> 0, statusText |-> "Invalid request", headers |-> EmptyMap,
        body |-> HandlerRefusal(payload), duration |-> elapsed, size |-> 0]
  ELSE IF outcome.kind = "ok"
  THEN [status |-> outcome.status, statusText |-> outcome.statusText,
        headers |-> outcome.headers, body |-> outcome.text,
        duration |-> elapsed, size |-> byteLength(outcome.text)]
  ELSE [status |-> 0, statusText |-> "Error", headers |-> EmptyMap,
        body |-> IF outcome.isError THEN outcome.message ELSE <<>>,
        duration |-> elapsed, size |-> 0]

\* The record the handler returns.  outcome is what fetch and
\* response.text() do: [kind |-> "ok", status, statusText, headers, text] or
\* [kind |-> "throws", isError, message]; elapsed is Date.now() - startedAt.
httpRequest(payload, outcome, elapsed) ==
  IF HandlerRefusal(payload) # NoValue
  THEN [status |-> 0, statusText |-> "Invalid request", headers |-> EmptyMap,
        body |-> HandlerRefusal(payload), duration |-> elapsed, size |-> 0]
  ELSE IF outcome.kind = "ok"
  THEN [status |-> outcome.status, statusText |-> outcome.statusText,
        headers |-> outcome.headers, body |-> outcome.text,
        duration |-> elapsed, size |-> byteLength(outcome.text)]
  ELSE [status |-> 0, statusText |-> "Request failed", headers |-> EmptyMap,
        body |-> IF outcome.isError THEN outcome.message ELSE <<"Request failed">>,
        duration |-> elapsed, size |-> 0]

\* -------------------------------------------------------------------------
\* State
\* -------------------------------------------------------------------------

VARIABLES
  api,          \* window.api?.request is there
  request,      \* the draft of the active tab
  variableMap,  \* name -> current value of the active environment
  response,     \* React state: the displayed response, NoResponse for null
  sending,      \* React state
  history,      \* React state, most recent first
  procs,        \* the handleSend invocations
  clock,        \* Date.now() of the renderer, as a logical clock
  bPayload,     \* transport boundary: a payload given to the handler
  bResult,      \* transport boundary: what the handler returned for it
  bFetches,     \* transport boundary: the fetch calls it made
  call,         \* a call of one of the utils: the function and its arguments
  ret,          \* what that call returned, NoReturn before it returns
  tabs,         \* React state: the open drafts, in tab order
  activeTabId,  \* React state: NoTab for ""
  nextId        \* crypto.randomUUID(): the next id it gives

vars == <<api, request, variableMap, response, sending, history, procs, clock,
          bPayload, bResult, bFetches, call, ret, tabs, activeTabId, nextId>>

appVars == <<api, request, variableMap, response, sending, history, procs, clock>>

boundaryVars == <<bPayload, bResult, bFetches>>

callVars == <<call, ret>>

tabVars == <<tabs, activeTabId, nextId>>

NoTab == 0

NoCall == [fn |-> "none"]

NoReturn == [done |-> FALSE]

Returned(value) == [done |-> TRUE, value |-> value]

\* Number of handleSend invocations a behaviour holds.
MaxSends == 2

\* [...].slice(0, 20)
HISTORY_LIMIT == 20

Procs == 1..MaxSends

NoResponse == [null |-> TRUE]

NoPayload == [kind |-> "none"]

NoError == [isError |-> FALSE, message |-> NoValue]

IdleProc ==
  [pc |-> "idle", via |-> "none", req |-> NoPayload, resolvedUrl |-> NoValue,
   vmap |-> EmptyMap, hist |-> <<>>, built |-> EmptyMap, payload |-> NoPayload,
   fetched |-> "none", resp |-> NoResponse, error |-> NoError,
   transportCalls |-> 0, fetchCalls |-> 0, result |-> NoResponse,
   recorded |-> 0, recordedAt |-> 0]

\* useMemo: resolvedUrl of the current render.
resolvedUrl == buildUrl(request.url, request.params, variableMap)

kv(key, value, enabled) == [key |-> key, value |-> value, enabled |-> enabled]

NoAuth == [type |-> "none"]

Fields(items) == [present |-> TRUE, items |-> items]

NoFields == [present |-> FALSE, items |-> <<>>]

\* The id of the tab a session starts with.
FirstId == 1

Draft(name, method, url, params, headers, bodyType, body, fields, auth) ==
  [id |-> FirstId, name |-> name, method |-> method, url |-> url, params |-> params,
   headers |-> headers, bodyType |-> bodyType, body |-> body,
   formDataFields |-> fields, auth |-> auth]

\* defaultRequest()
JsonText == <<"{", "}">>

defaultRequest ==
  Draft("Untitled Request", "GET", <<"https://h/", "v", "1">>,
        <<kv(<<>>, <<>>, TRUE)>>, <<kv(<<>>, <<>>, TRUE)>>,
        "json", JsonText, Fields(<<kv(<<>>, <<>>, TRUE)>>), NoAuth)

\* The drafts the user moves between while requests are in flight.
EditDrafts ==
  { defaultRequest,
    [defaultRequest EXCEPT !.name = "Broken", !.url = <<"{", "{", "b", "}", "}", "p">>],
    [defaultRequest EXCEPT !.name = "Create", !.method = "POST",
                           !.params = <<kv(<<"k">>, <<"{", "{", "a", "}", "}">>, TRUE)>>,
                           !.auth = [type |-> "apiKey", key |-> <<"X-Key">>,
                                     value |-> <<"v">>, addTo |-> "query"]] }

\* What fetch and response.text() can do.
Ok(status, statusText, text) ==
  [kind |-> "ok", status |-> status, statusText |-> statusText,
   headers |-> (<<"content-type">> :> <<"application/json">>), text |-> text,
   isError |-> FALSE, message |-> NoValue]

Throws(isError, message) ==
  [kind |-> "throws", status |-> 0, statusText |-> "", headers |-> EmptyMap,
   text |-> <<>>, isError |-> isError, message |-> message]

\* The outcomes a request sent from the renderer meets.
FetchOutcomes ==
  { Ok(200, "OK", <<"{", "e-acute", "}">>),
    Throws(TRUE, <<"fetch failed">>),
    Throws(FALSE, NoValue) }

\* The outcomes tried at the transport boundary.
BoundaryOutcomes ==
  FetchOutcomes \cup { Ok(404, "Not Found", <<>>) }

\* How ipcRenderer.invoke rejects: always with an Error.
IpcErrors == { [isError |-> TRUE, message |-> <<"Error invoking remote method 'http:request'">>] }

\* Date.now() - startedAt: of a request sent from the renderer, and at the
\* transport boundary.
Elapsed == {1}

BoundaryElapsed == {0, 1}

\* localStorage "apihive.history" as an earlier session left it: n entries,
\* most recent first.
SavedEntry(i) ==
  [id |-> 0 - i, name |-> "Untitled Request", method |-> "GET",
   url |-> <<"https://h/", "v", "1">>, status |-> 200, duration |-> 1, size |-> 2,
   at |-> 0 - i]

SavedHistory(n) == [i \in 1..n |-> SavedEntry(i)]

Take(s, n) == IF Len(s) <= n THEN s ELSE SubSeq(s, 1, n)

\* -------------------------------------------------------------------------
\* Operations
\* -------------------------------------------------------------------------

\* Mutant: the URL is checked before the transport.
PreDispatchFailure_UrlFirst(apiThere, resolved) ==
  IF ~isValidHttpUrl(resolved) THEN InvalidUrlResponse
  ELSE IF ~apiThere THEN ApiMissingResponse
  ELSE NoResponse

\* The two checks handleSend makes before it dispatches: the record it
\* shows and returns with, NoResponse when the request goes on.
PreDispatchFailure(apiThere, resolved) ==
  IF ~apiThere THEN ApiMissingResponse
  ELSE IF ~isValidHttpUrl(resolved) THEN InvalidUrlResponse
  ELSE NoResponse

\* Mutant: the entry keeps the URL that was dispatched.
HistoryEntry_DispatchedUrl(id, req, resolved, resp, now) ==
  [id |-> id, name |-> req.name, method |-> req.method,
   url |-> DispatchUrl(req, resolved),
   status |-> resp.status, duration |-> resp.duration, size |-> resp.size,
   at |-> now]

\* The entry handleSend builds after the transport resolved, and the list it
\* passes to setHistory: hist is the history of the render the invocation
\* closed over.
HistoryEntry(id, req, resolved, resp, now) ==
  [id |-> id, name |-> req.name, method |-> req.method, url |-> resolved,
   status |-> resp.status, duration |-> resp.duration, size |-> resp.size,
   at |-> now]

nextHistory(entry, hist) == Take(<<entry>> \o hist, HISTORY_LIMIT)

NextProc == CHOOSE p \in Procs : procs[p].pc = "idle" /\ \A q \in 1..(p - 1) : procs[q].pc # "idle"

\* handleSend up to its await: it closes over request, resolvedUrl,
\* variableMap and history of the current render.
HandleSend(p, via) ==
  /\ procs[p].pc = "idle"
  /\ LET failure == PreDispatchFailure(api, resolvedUrl)
     IN IF failure # NoResponse
        THEN /\ response' = failure
             /\ procs' = [procs EXCEPT ![p] =
                  [@ EXCEPT !.pc = "done", !.via = via, !.req = request,
                            !.resolvedUrl = resolvedUrl, !.vmap = variableMap,
                            !.hist = history, !.result = failure]]
             /\ UNCHANGED sending
        ELSE /\ sending' = TRUE
             /\ response' = NoResponse
             /\ procs' = [procs EXCEPT ![p] =
                  [@ EXCEPT !.pc = "awaiting", !.via = via, !.req = request,
                            !.resolvedUrl = resolvedUrl, !.vmap = variableMap,
                            !.hist = history,
                            !.built = buildHeaders(request.headers, request.auth,
                                                   variableMap),
                            !.payload = Payload(request, resolvedUrl, variableMap),
                            !.transportCalls = @ + 1]]
  /\ UNCHANGED <<api, request, variableMap, history, clock, boundaryVars, callVars, tabVars>>

\* The Send button: disabled while sending.
ClickSend ==
  /\ ~sending
  /\ \E p \in Procs : procs[p].pc = "idle"
  /\ HandleSend(NextProc, "button")

\* Cmd/Ctrl+Enter: handleSendRef.current() with no check of sending.
KeySend ==
  /\ \E p \in Procs : procs[p].pc = "idle"
  /\ HandleSend(NextProc, "key")

\* The main process runs the handler for the payload of p and replies.
IpcHandle(p) ==
  /\ procs[p].pc = "awaiting"
  /\ \E outcome \in FetchOutcomes, elapsed \in Elapsed :
       procs' = [procs EXCEPT ![p] =
         [@ EXCEPT !.pc = "resolved",
                   !.fetched = IF FetchAttempts(procs[p].payload, outcome) = 0
                               THEN "none" ELSE outcome.kind,
                   !.resp = httpRequest(procs[p].payload, outcome, elapsed),
                   !.fetchCalls = @ + FetchAttempts(procs[p].payload, outcome)]]
  /\ UNCHANGED <<api, request, variableMap, response, sending, history, clock,
                 boundaryVars, callVars, tabVars>>

\* ipcRenderer.invoke rejects.
IpcReject(p) ==
  /\ procs[p].pc = "awaiting"
  /\ \E error \in IpcErrors :
       procs' = [procs EXCEPT ![p] = [@ EXCEPT !.pc = "rejected", !.error = error]]
  /\ UNCHANGED <<api, request, variableMap, response, sending, history, clock,
                 boundaryVars, callVars, tabVars>>

\* handleSend after the await resolved: setResponse, setHistory, finally.
ResumeResolved(p) ==
  /\ procs[p].pc = "resolved"
  /\ clock' = clock + 1
  /\ response' = procs[p].resp
  /\ history' = nextHistory(HistoryEntry(p, procs[p].req, procs[p].resolvedUrl,
                                         procs[p].resp, clock'),
                            procs[p].hist)
  /\ sending' = FALSE
  /\ procs' = [procs EXCEPT ![p] =
       [@ EXCEPT !.pc = "done", !.result = procs[p].resp, !.recorded = @ + 1,
                 !.recordedAt = clock']]
  /\ UNCHANGED <<api, request, variableMap, boundaryVars, callVars, tabVars>>

\* handleSend after the await rejected: catch, finally.
ResumeRejected(p) ==
  /\ procs[p].pc = "rejected"
  /\ response' = CaughtResponse(procs[p].error)
  /\ sending' = FALSE
  /\ procs' = [procs EXCEPT ![p] =
       [@ EXCEPT !.pc = "done", !.result = CaughtResponse(procs[p].error)]]
  /\ UNCHANGED <<api, request, variableMap, history, clock, boundaryVars, callVars, tabVars>>

\* const request = tabs.find((t) => t.id === activeTabId) ?? tabs[0]
CurrentRequest(ts, active) ==
  IF \E i \in 1..Len(ts) : ts[i].id = active
  THEN ts[CHOOSE i \in 1..Len(ts) :
            ts[i].id = active /\ \A j \in 1..(i - 1) : ts[j].id # active]
  ELSE ts[1]

\* The user edits the draft: setRequest({...request, ...}) replaces the tab
\* whose id is activeTabId.
SetRequest(draft) ==
  LET updated == [draft EXCEPT !.id = request.id]
  IN /\ updated # request
     /\ tabs' = [i \in 1..Len(tabs) |->
                   IF tabs[i].id = activeTabId THEN updated ELSE tabs[i]]
     /\ request' = CurrentRequest(tabs', activeTabId)
     /\ UNCHANGED <<api, variableMap, response, sending, history, procs, clock,
                    boundaryVars, callVars, activeTabId, nextId>>

Init ==
  /\ api \in BOOLEAN
  /\ request = defaultRequest
  /\ variableMap = (<<"a">> :> <<"x">>)
  /\ response = NoResponse
  /\ sending = FALSE
  /\ history \in {SavedHistory(0), SavedHistory(HISTORY_LIMIT - 1)}
  /\ procs = [p \in Procs |-> IdleProc]
  /\ clock = 0
  /\ bPayload = NoPayload
  /\ bResult = NoResponse
  /\ bFetches = 0
  /\ call = NoCall
  /\ ret = NoReturn
  /\ tabs = <<request>>
  /\ activeTabId = request.id
  /\ nextId = request.id + 1

Next ==
  \/ ClickSend
  \/ KeySend
  \/ \E p \in Procs : IpcHandle(p)
  \/ \E p \in Procs : IpcReject(p)
  \/ \E p \in Procs : ResumeResolved(p)
  \/ \E p \in Procs : ResumeRejected(p)
  \/ \E draft \in EditDrafts : SetRequest(draft)

Spec == Init /\ [][Next]_vars

\* -------------------------------------------------------------------------
\* One request, for every draft of a family of drafts
\* -------------------------------------------------------------------------

\* Longest header list of a draft.
MaxRows == 2

Placeholder(name) == <<"{", "{">> \o name \o <<"}", "}">>

HeaderRows ==
  { kv(<<"Content-Type">>, <<"t">>, TRUE),
    kv(<<"Authorization">>, <<"u">>, TRUE),
    kv(<<" ">> \o Placeholder(<<"a">>), <<"x">>, TRUE),
    kv(<<"X-Key">>, Placeholder(<<"a">>), FALSE) }

HeaderLists == UNION { [1..n -> HeaderRows] : n \in 0..MaxRows }

Auths ==
  { NoAuth,
    [type |-> "basic", username |-> <<"u">>, password |-> <<"p", "1">>],
    [type |-> "basic", username |-> Placeholder(<<"a">>), password |-> <<>>],
    [type |-> "bearer", token |-> <<"t">>],
    [type |-> "apiKey", key |-> <<"Content-Type">>, value |-> <<"k">>, addTo |-> "header"],
    [type |-> "apiKey", key |-> <<"Authorization">>, value |-> Placeholder(<<"b">>),
     addTo |-> "header"],
    [type |-> "apiKey", key |-> <<"X-Key">>, value |-> <<"k">>, addTo |-> "query"] }

\* Auths with a placeholder typed into a field.
TemplateAuths ==
  { [type |-> "bearer", token |-> Placeholder(<<"a">>)],
    [type |-> "apiKey", key |-> Placeholder(<<"a">>), value |-> Placeholder(<<"a">>),
     addTo |-> "header"],
    [type |-> "apiKey", key |-> <<"k">>, value |-> Placeholder(<<"a">>),
     addTo |-> "query"] }

\* Header rows with placeholders of a known and of an unknown name.
TemplateRows ==
  { kv(<<"Accept">>, <<"a">> \o Placeholder(<<"b">>), TRUE),
    kv(<<" ">> \o Placeholder(<<"a">>), <<"x">>, TRUE) }

TemplateLists == UNION { [1..n -> TemplateRows] : n \in 0..MaxRows }

\* <<bodyType, body, formDataFields>>
BodyChoices ==
  { <<"json", JsonText \o Placeholder(<<"a">>), NoFields>>,
    <<"json", <<" ">>, Fields(<<kv(<<"k">>, <<"v">>, TRUE)>>)>>,
    <<"form-data", JsonText, Fields(<<kv(<<"k">>, Placeholder(<<"a">>), TRUE),
                                      kv(<<"x">>, <<"y">>, FALSE)>>)>>,
    <<"form-data", JsonText, Fields(<<>>)>>,
    <<"form-data", JsonText, NoFields>>,
    <<"text", <<"a", " ", "b">>, NoFields>>,
    <<"text", <<>>, NoFields>> }

HeaderDrafts ==
  { Draft("Draft", method, <<"https://h/", "p">>, <<>>, headers, body[1], body[2],
          body[3], auth) :
      method \in {"GET", "HEAD", "POST"}, headers \in HeaderLists,
      body \in BodyChoices, auth \in Auths }

TemplateDrafts ==
  { Draft("Draft", method, <<"https://h/", "p">>, <<>>, headers, body[1], body[2],
          body[3], auth) :
      method \in {"GET", "POST"}, headers \in TemplateLists,
      body \in BodyChoices, auth \in Auths \cup TemplateAuths }

\* Rows of the form-data table: to resolve and encode, disabled, with a
\* blank key, with a key to trim.
FormRows ==
  { kv(<<"k">>, Placeholder(<<"a">>), TRUE),
    kv(<<"x">>, <<"y">>, FALSE),
    kv(<<" ">>, <<"y">>, TRUE),
    kv(<<" ", "b", " ">>, <<"a", " ", "=", "&">>, TRUE) }

FormLists == UNION { [1..n -> FormRows] : n \in 0..MaxRows }

FormDrafts ==
  { Draft("Draft", method, <<"https://h/", "p">>, <<>>, <<>>, "form-data", JsonText,
          fields, NoAuth) :
      method \in {"GET", "POST"},
      fields \in {NoFields} \cup { Fields(items) : items \in FormLists } }

Urls ==
  { <<"https://h/", "p">>,
    <<" ", "http://h/", " ">>,
    <<"ftp://h/", "p">>,
    <<"a", "?", "b">>,
    <<" ">>,
    <<>>,
    Placeholder(<<"b">>),
    Placeholder(<<"a">>) \o <<"p">>,
    Placeholder(<<"u">>) \o <<"#", "x">>,
    <<"https://h/", "{", "{">> \o Placeholder(<<"a">>) \o <<"}", "}">> }

UrlDrafts ==
  { Draft("Draft", "GET", url, params, <<>>, "json", JsonText, NoFields, auth) :
      url \in Urls,
      params \in { <<>>, <<kv(<<"k">>, <<"v">>, TRUE)>> },
      auth \in { NoAuth,
                 [type |-> "apiKey", key |-> <<"k">>, value |-> <<"v">>,
                  addTo |-> "query"] } }

VariableMaps ==
  { (<<"a">> :> <<"Authorization">>) @@ (<<"u">> :> <<"https://h/">>),
    (<<"a">> :> <<"Content-Type">>) }

InitDraft ==
  /\ \/ api = TRUE /\ request \in HeaderDrafts \cup TemplateDrafts \cup FormDrafts
     \/ api \in BOOLEAN /\ request \in UrlDrafts
  /\ variableMap \in VariableMaps
  /\ response = NoResponse
  /\ sending = FALSE
  /\ history = <<>>
  /\ procs = [p \in Procs |-> IdleProc]
  /\ clock = 0
  /\ bPayload = NoPayload
  /\ bResult = NoResponse
  /\ bFetches = 0
  /\ call = NoCall
  /\ ret = NoReturn
  /\ tabs = <<request>>
  /\ activeTabId = request.id
  /\ nextId = request.id + 1

SendOnce == procs[1].pc = "idle" /\ ClickSend

NextDraft ==
  \/ SendOnce
  \/ \E p \in Procs : IpcHandle(p)
  \/ \E p \in Procs : IpcReject(p)
  \/ \E p \in Procs : ResumeResolved(p)
  \/ \E p \in Procs : ResumeRejected(p)

SpecDraft == InitDraft /\ [][NextDraft]_vars

\* -------------------------------------------------------------------------
\* The transport boundary: the handler on any payload
\* -------------------------------------------------------------------------

BoundaryPayloads ==
  { [kind |-> "null"], [kind |-> "string"] } \cup
  [ kind : {"object"},
    url : { NoValue, NotAString, <<>>, <<" ">>, <<"a">>, <<"ftp://h/", "p">>,
            <<"https://h/", "p">>, <<" ", "http://h/", " ">> },
    method : { NoMethod, "GET", "get", "POST", "HEAD", "TRACE", "trace", "CONNECT" },
    headers : { NoHeaders, EmptyMap, (<<"Accept">> :> <<"a">>) },
    body : { NoValue, <<>>, <<"a">> } ]

InitBoundary ==
  /\ api = TRUE
  /\ request = defaultRequest
  /\ variableMap = EmptyMap
  /\ response = NoResponse
  /\ sending = FALSE
  /\ history = <<>>
  /\ procs = [p \in Procs |-> IdleProc]
  /\ clock = 0
  /\ bPayload \in BoundaryPayloads
  /\ bResult = NoResponse
  /\ bFetches = 0
  /\ call = NoCall
  /\ ret = NoReturn
  /\ tabs = <<request>>
  /\ activeTabId = request.id
  /\ nextId = request.id + 1

\* ipcMain's handler runs on bPayload.
BoundaryCall ==
  /\ bResult = NoResponse
  /\ \E outcome \in BoundaryOutcomes, elapsed \in BoundaryElapsed :
       /\ bResult' = httpRequest(bPayload, outcome, elapsed)
       /\ bFetches' = bFetches + FetchAttempts(bPayload, outcome)
  /\ UNCHANGED <<bPayload, appVars, callVars, tabVars>>

NextBoundary == BoundaryCall

SpecBoundary == InitBoundary /\ [][NextBoundary]_vars

\* -------------------------------------------------------------------------
\* The utils called on their own: applyVariables, buildUrl, buildHeaders
\* -------------------------------------------------------------------------

\* Longest text given to applyVariables, in pieces.
MaxPieces == 4

\* The pieces a text is made of.
TextPieces ==
  { <<"{", "{">>, <<"}", "}">>, <<"{">>, <<"a">>, <<"b">>, <<" ">> }

\* Longer texts: a placeholder inside the braces of another, two
\* placeholders, text on both sides of a placeholder.
LongTexts ==
  { <<"{", "{", "b", "{", "{", "b", "}", "}", "}", "}">>,
    <<"{", "{", " ", "a", " ", "}", "}", "x", "{", "{", "b", "}", "}">>,
    <<"a", "{", "{", " ", "b", "}", "}", "a">>,
    <<"{", "{", "{", "{", "a", "}", "}", "}", "}">>,
    <<"{", "{", "{", "a", "}", "}", "b">> }

Texts ==
  LongTexts \cup
  UNION { { Flatten(ps) : ps \in [1..n -> TextPieces] } : n \in 0..MaxPieces }

\* Variable maps of an environment: empty, a plain value, and a value that
\* is itself a variable name.
CallMaps ==
  { EmptyMap, (<<"a">> :> <<"x">>), (<<"a">> :> <<"b">>),
    (<<"a">> :> <<"{", "{", "b", "}", "}">>) @@ (<<"b">> :> <<"y">>) }

UtilCall(fn, text, items, auth, vmap) ==
  [fn |-> fn, text |-> text, items |-> items, auth |-> auth, vars |-> vmap]

ResolveCalls ==
  { UtilCall("applyVariables", text, <<>>, NoAuth, vmap) :
      text \in Texts, vmap \in CallMaps }

\* Longest params or headers list of a call.
MaxItems == 3

\* Rows of a params or headers table: enabled, disabled, with an empty or a
\* blank key, with a key to trim, with placeholders.
CallRows ==
  { kv(<<"k">>, <<"v">>, TRUE),
    kv(<<"x">>, <<"y">>, FALSE),
    kv(<<>>, <<"v">>, TRUE),
    kv(<<" ">>, <<"y">>, TRUE),
    kv(<<" ", "b", " ">>, Placeholder(<<"a">>), TRUE),
    kv(Placeholder(<<"a">>), <<"#", "?">>, TRUE) }

CallLists == UNION { [1..n -> CallRows] : n \in 0..MaxItems }

CallUrls ==
  { <<"https://h/", "p">>,
    <<"https://h/", "p", "?", "a", "=", "1">>,
    <<"https://h/", "p", "#", "x">>,
    <<"https://h/", "p", "?", "a", "=", "1", "#", "x">>,
    <<"https://h/", "p", "#", "x", "?", "y", "#", "b">>,
    <<"https://h/">> \o Placeholder(<<"a">>) \o <<"#">> \o Placeholder(<<"b">>),
    <<>> }

BuildUrlCalls ==
  { UtilCall("buildUrl", url, params, NoAuth, vmap) :
      url \in CallUrls, params \in CallLists, vmap \in CallMaps }

BuildHeadersCalls ==
  { UtilCall("buildHeaders", <<>>, headers, auth, vmap) :
      headers \in CallLists,
      auth \in { NoAuth, [type |-> "bearer", token |-> <<"t">>] },
      vmap \in CallMaps }

\* An EnvVariable (its id and its sensitive flag are not read here) and an
\* Environment.
ev(key, initialValue, currentValue) ==
  [key |-> key, initialValue |-> initialValue, currentValue |-> currentValue]

env(id, variables) == [id |-> id, variables |-> variables]

\* activeEnv?.variables ?? []
activeVariables(environments, activeEnvId) ==
  LET found == { i \in 1..Len(environments) : environments[i].id = activeEnvId }
  IN IF found = {} THEN <<>>
     ELSE environments[CHOOSE i \in found : \A j \in found : i <= j].variables

RECURSIVE PutVariables(_, _)
PutVariables(map, items) ==
  IF items = <<>> THEN map
  ELSE PutVariables(Put(map, Trim(Head(items).key), Head(items).currentValue),
                    Tail(items))

\* Mutant: the map holds the initial values.
variableMapOf_InitialValues(variables) ==
  LET Keep(item) == Len(Trim(item.key)) > 0
      Initial(item) == [item EXCEPT !.currentValue = item.initialValue]
      kept == SelectSeq(variables, Keep)
  IN PutVariables(EmptyMap, [i \in 1..Len(kept) |-> Initial(kept[i])])

\* The useMemo that computes variableMap.
variableMapOf(variables) ==
  LET Keep(item) == Len(Trim(item.key)) > 0
  IN PutVariables(EmptyMap, SelectSeq(variables, Keep))

EnvRows ==
  { ev(<<"a">>, <<"1">>, <<"x">>),
    ev(<<" ", "a", " ">>, <<"1">>, <<"y">>),
    ev(<<" ">>, <<"1">>, <<"v">>),
    ev(<<>>, <<>>, <<>>),
    ev(<<"b">>, <<"2">>, <<>>) }

EnvLists == UNION { [1..n -> EnvRows] : n \in 0..MaxItems }

\* The call of the memo: text is activeEnvId, items the environments.
VariableMapCalls ==
  { UtilCall("variableMap", id, <<env(<<"dev">>, variables),
                                  env(<<"prod">>, <<ev(<<>>, <<>>, <<>>)>>)>>,
             NoAuth, EmptyMap) :
      id \in { <<"dev">>, <<"prod">>, <<>> }, variables \in EnvLists }

CallVariableMap ==
  /\ call.fn = "variableMap"
  /\ ret = NoReturn
  /\ ret' = Returned(variableMapOf(activeVariables(call.items, call.text)))
  /\ UNCHANGED <<call, appVars, boundaryVars, tabVars>>

CallApplyVariables ==
  /\ call.fn = "applyVariables"
  /\ ret = NoReturn
  /\ ret' = Returned(applyVariables(call.text, call.vars))
  /\ UNCHANGED <<call, appVars, boundaryVars, tabVars>>

CallBuildUrl ==
  /\ call.fn = "buildUrl"
  /\ ret = NoReturn
  /\ ret' = Returned(buildUrl(call.text, call.items, call.vars))
  /\ UNCHANGED <<call, appVars, boundaryVars, tabVars>>

CallBuildHeaders ==
  /\ call.fn = "buildHeaders"
  /\ ret = NoReturn
  /\ ret' = Returned(buildHeaders(call.items, call.auth, call.vars))
  /\ UNCHANGED <<call, appVars, boundaryVars, tabVars>>

\* The auth type select of the request panel: each variant starts fresh, and
\* the rest of the draft is spread into the new one.
AuthTypes == {"none", "basic", "bearer", "apiKey"}

freshAuth(type) ==
  CASE type = "none" -> [type |-> "none"]
    [] type = "basic" -> [type |-> "basic", username |-> <<>>, password |-> <<>>]
    [] type = "bearer" -> [type |-> "bearer", token |-> <<>>]
    [] type = "apiKey" -> [type |-> "apiKey", key |-> <<>>, value |-> <<>>,
                           addTo |-> "header"]

\* A select that spreads the previous auth under the new variant.
onAuthTypeChange_CarryOver(draft, type) ==
  LET prev == draft.auth
      fresh == freshAuth(type)
      merged == [f \in DOMAIN prev \cup DOMAIN fresh |->
                   IF f = "type" THEN type
                   ELSE IF f \in DOMAIN prev THEN prev[f] ELSE fresh[f]]
  IN [draft EXCEPT !.auth = merged]

onAuthTypeChange(draft, type) ==
  [draft EXCEPT !.auth = freshAuth(type)]

\* The select's change events one after the other, each on the draft the
\* previous one left.
RECURSIVE SwitchAuth(_, _)
SwitchAuth(draft, types) ==
  IF types = <<>> THEN draft
  ELSE SwitchAuth(onAuthTypeChange(draft, Head(types)), Tail(types))

\* A select fires its change event only when the chosen option differs.
MaxSwitches == 2

Switches(from) ==
  { ts \in UNION { [1..n -> AuthTypes] : n \in 1..MaxSwitches } :
      /\ ts[1] # from
      /\ \A i \in 2..Len(ts) : ts[i] # ts[i - 1] }

AuthDrafts ==
  { [d EXCEPT !.auth = a] : d \in EditDrafts, a \in Auths \cup TemplateAuths }

AuthTypeCalls ==
  UNION { { [fn |-> "authType", draft |-> d, types |-> ts] :
              ts \in Switches(d.auth.type) } : d \in AuthDrafts }

CallAuthType ==
  /\ call.fn = "authType"
  /\ ret = NoReturn
  /\ ret' = Returned(SwitchAuth(call.draft, call.types))
  /\ UNCHANGED <<call, appVars, boundaryVars, tabVars>>

InitCall ==
  /\ api = TRUE
  /\ request = defaultRequest
  /\ variableMap = EmptyMap
  /\ response = NoResponse
  /\ sending = FALSE
  /\ history = <<>>
  /\ procs = [p \in Procs |-> IdleProc]
  /\ clock = 0
  /\ bPayload = NoPayload
  /\ bResult = NoResponse
  /\ bFetches = 0
  /\ call \in ResolveCalls \cup BuildUrlCalls \cup BuildHeadersCalls
                \cup VariableMapCalls \cup AuthTypeCalls
  /\ ret = NoReturn
  /\ tabs = <<request>>
  /\ activeTabId = request.id
  /\ nextId = request.id + 1

NextCall ==
  \/ CallApplyVariables
  \/ CallBuildUrl
  \/ CallBuildHeaders
  \/ CallVariableMap
  \/ CallAuthType

SpecCall == InitCall /\ [][NextCall]_vars

\* -------------------------------------------------------------------------
\* The tabs, while a request is in flight
\* -------------------------------------------------------------------------

\* Number of ids crypto.randomUUID() gives in a behaviour.
MaxIds == 4

TabIds(ts) == { ts[i].id : i \in 1..Len(ts) }

\* defaultRequest() with the id randomUUID gave it.
newRequest(id) == [defaultRequest EXCEPT !.id = id]

\* tabs.filter((t) => t.id !== id)
WithoutTab(ts, id) == SelectSeq(ts, LAMBDA t : t.id # id)

\* Mutant: no repair effect.
repairActiveTabId_Never(ts, active) == active

\* The effect on [tabs, activeTabId]: an activeTabId that is empty or names
\* no tab becomes the id of the first tab.
repairActiveTabId(ts, active) ==
  IF (active = NoTab \/ active \notin TabIds(ts)) /\ Len(ts) > 0
  THEN ts[1].id
  ELSE active

\* What a handler's state updates leave once React has rendered and run the
\* effects: the given tabs and active id, repaired, and the request of the
\* new render.
Render(ts, active) ==
  /\ tabs' = ts
  /\ activeTabId' = repairActiveTabId(ts, active)
  /\ request' = CurrentRequest(ts, activeTabId')

AddTab ==
  /\ nextId <= MaxIds
  /\ Render(Append(tabs, newRequest(nextId)), nextId)
  /\ nextId' = nextId + 1
  /\ response' = NoResponse
  /\ UNCHANGED <<api, variableMap, sending, history, procs, clock, boundaryVars,
                 callVars>>

\* closeTab(id) from the close button of a tab.  The updater of setTabs
\* makes the default request of the last-tab case itself: StrictMode calls
\* an updater twice and keeps one result, so the id given to
\* setActiveTabId is that of the kept request or of the dropped one.
CloseTab(id) ==
  LET next == WithoutTab(tabs, id)
  IN /\ id \in TabIds(tabs)
     /\ IF next = <<>>
        THEN /\ nextId + 1 <= MaxIds
             /\ \E twice \in BOOLEAN :
                  /\ Render(<<newRequest(nextId)>>,
                            IF twice THEN nextId + 1 ELSE nextId)
                  /\ nextId' = IF twice THEN nextId + 2 ELSE nextId + 1
             /\ response' = NoResponse
        ELSE /\ Render(next, IF activeTabId = id THEN next[1].id ELSE activeTabId)
             /\ response' = IF activeTabId = id THEN NoResponse ELSE response
             /\ UNCHANGED nextId
     /\ UNCHANGED <<api, variableMap, sending, history, procs, clock, boundaryVars,
                    callVars>>

\* The requests of the sidebar: one of a folder, with an id of its own, one
\* stored without form fields, and the open drafts as saveToCollection
\* stored them.
FolderRequest ==
  [defaultRequest EXCEPT !.id = 0 - 1, !.name = "Create", !.method = "POST"]

StoredRequests ==
  { FolderRequest,
    [FolderRequest EXCEPT !.id = 0 - 2, !.name = "Old", !.formDataFields = NoFields] }

loadRequest(item, id) ==
  [item EXCEPT !.id = id,
               !.formDataFields = IF item.formDataFields.present
                                  THEN item.formDataFields
                                  ELSE Fields(<<kv(<<>>, <<>>, TRUE)>>)]

LoadRequest(item) ==
  /\ IF item.id \in TabIds(tabs)
     THEN /\ Render(tabs, item.id)
          /\ UNCHANGED nextId
     ELSE /\ nextId <= MaxIds
          /\ Render(Append(tabs, loadRequest(item, nextId)), nextId)
          /\ nextId' = nextId + 1
  /\ response' = NoResponse
  /\ UNCHANGED <<api, variableMap, sending, history, procs, clock, boundaryVars,
                 callVars>>

OnTabSelect(id) ==
  /\ id \in TabIds(tabs)
  /\ Render(tabs, id)
  /\ response' = NoResponse
  /\ UNCHANGED <<api, variableMap, sending, history, procs, clock, boundaryVars,
                 callVars, nextId>>

\* The Send button, for the first request of the session.
SendFromTab ==
  /\ \A p \in Procs : procs[p].pc = "idle"
  /\ ClickSend

\* After the mount effect and the effects of the first render: the single
\* default tab of useState, or the tabs "apihive.collections" held.
SavedTabs ==
  { <<newRequest(FirstId)>>,
    <<newRequest(FirstId), loadRequest(FolderRequest, FirstId + 1)>> }

InitTabs ==
  /\ api = TRUE
  /\ tabs \in SavedTabs
  /\ activeTabId = repairActiveTabId(tabs, IF Len(tabs) = 1 THEN NoTab ELSE tabs[1].id)
  /\ nextId = Len(tabs) + 1
  /\ request = CurrentRequest(tabs, activeTabId)
  /\ variableMap = (<<"a">> :> <<"x">>)
  /\ response = NoResponse
  /\ sending = FALSE
  /\ history = <<>>
  /\ procs = [p \in Procs |-> IdleProc]
  /\ clock = 0
  /\ bPayload = NoPayload
  /\ bResult = NoResponse
  /\ bFetches = 0
  /\ call = NoCall
  /\ ret = NoReturn

NextTabs ==
  \/ \E id \in TabIds(tabs) : OnTabSelect(id)
  \/ AddTab
  \/ \E id \in TabIds(tabs) : CloseTab(id)
  \/ \E item \in StoredRequests \cup { tabs[i] : i \in 1..Len(tabs) } : LoadRequest(item)
  \/ SendFromTab
  \/ \E p \in Procs : IpcHandle(p)
  \/ \E p \in Procs : IpcReject(p)
  \/ \E p \in Procs : ResumeResolved(p)
  \/ \E p \in Procs : ResumeRejected(p)

SpecTabs == InitTabs /\ [][NextTabs]_vars

\* -------------------------------------------------------------------------
\* Properties
\* -------------------------------------------------------------------------

Done(p) == procs[p].pc = "done"

Quiet == \A p \in Procs : procs[p].pc \in {"idle", "done"}

InHistory(p) == \E i \in 1..Len(history) : history[i].id = p

\* C1: once every handleSend execution has completed, the history holds the
\* entry of each execution that appended one, unless HISTORY_LIMIT newer
\* entries have pushed it out: overlapping executions lose no entry.
C1_NoEntryLost ==
  Quiet =>
    \A p \in Procs :
      procs[p].recorded = 1 =>
        \/ InHistory(p)
        \/ /\ Len(history) = HISTORY_LIMIT
           /\ \A i \in 1..Len(history) : history[i].at > procs[p].recordedAt

\* C2: every recording step leaves at most HISTORY_LIMIT entries, puts the
\* entry of the execution recorded by the step at index 0, and keeps behind
\* it the list as it was, in order, less the oldest entries that no longer
\* fit.
C2_PrependAndTruncate ==
  [][\A p \in Procs :
       (procs[p].recorded = 0 /\ procs'[p].recorded = 1) =>
         /\ Len(history') <= HISTORY_LIMIT
         /\ history'[1].id = p
         /\ Tail(history') = Take(history, HISTORY_LIMIT - 1)]_vars

\* C3: every handleSend invocation that has completed, in success or in
\* failure, has prepended exactly one entry to the history.
C3_EveryCompletionRecorded ==
  \A p \in Procs : Done(p) => procs[p].recorded = 1

NetworkFailed(p) == procs[p].fetched = "throws" \/ procs[p].error # NoError

RequestFailedShape(r) ==
  /\ r # NoResponse
  /\ r.status = 0
  /\ r.statusText = "Request failed"
  /\ r.headers = EmptyMap
  /\ r.body # NoValue
  /\ Len(r.body) > 0

\* C4: when fetch rejects in the handler or the IPC call rejects in the
\* renderer, the invocation ends with a record {status 0, "Request failed",
\* no headers, a non-empty message}: what the handler replies has that shape
\* and so has the outcome of handleSend.
C4_NetworkFailureIsARecord ==
  \A p \in Procs :
    /\ (procs[p].pc = "resolved" /\ procs[p].fetched = "throws")
         => RequestFailedShape(procs[p].resp)
    /\ (Done(p) /\ NetworkFailed(p)) => RequestFailedShape(procs[p].result)

C4_Witness ==
  \E p, q \in Procs :
    /\ Done(p) /\ procs[p].fetched = "throws"
    /\ Done(q) /\ procs[q].error # NoError

\* C6: a handleSend invocation calls the transport at most once and a
\* handler invocation calls fetch at most once, also when the attempt fails.
C6_AtMostOneAttempt ==
  \A p \in Procs : procs[p].transportCalls <= 1 /\ procs[p].fetchCalls <= 1

C6_Witness ==
  \E p \in Procs :
    /\ Done(p) /\ procs[p].fetched = "throws"
    /\ procs[p].transportCalls = 1 /\ procs[p].fetchCalls = 1

Started(p) == procs[p].via # "none"

Dispatched(p) == procs[p].transportCalls = 1

\* The resolved URL does not parse as a URL, or its scheme is not http(s).
NotHttpUrl(url) == UrlProtocol(Trim(url)) \notin {"http:", "https:"}

PreDispatchShape(r, statusText) ==
  /\ r # NoResponse
  /\ r.status = 0
  /\ r.statusText = statusText
  /\ r.headers = EmptyMap

\* C5: an invocation that finds no window.api.request ends with {status 0,
\* "Error"}, whatever the URL is; one that finds it but whose resolved URL
\* is no http(s) URL ends with {status 0, "Invalid URL"}; neither calls the
\* transport.
C5_PreDispatchFailures ==
  \A p \in Procs :
    Started(p) =>
      /\ ~api =>
           /\ Done(p) /\ PreDispatchShape(procs[p].result, "Error")
           /\ procs[p].transportCalls = 0 /\ procs[p].payload = NoPayload
      /\ (api /\ NotHttpUrl(procs[p].resolvedUrl)) =>
           /\ Done(p) /\ PreDispatchShape(procs[p].result, "Invalid URL")
           /\ procs[p].transportCalls = 0 /\ procs[p].payload = NoPayload

C5_Witness ==
  \E p \in Procs :
    /\ ~api /\ Done(p) /\ NotHttpUrl(procs[p].resolvedUrl)
    /\ procs[p].result.statusText = "Error"
    /\ response = procs[p].result

\* The requests the boundary is to stop, in the words of section 6: the
\* method is not one of the seven, or the URL is missing, unparsable or not
\* http(s).
UrlMissing(payload) ==
  payload.url = NoValue \/ payload.url = NotAString \/ Trim(payload.url) = <<>>

C7_Stopped(payload) ==
  /\ payload.kind = "object"
  /\ \/ payload.method \notin ALLOWED_METHODS
     \/ UrlMissing(payload)
     \/ NotHttpUrl(payload.url)

\* C7 as stated: a request with a method outside the seven or with a
\* missing, unparsable or non-http(s) URL never reaches fetch and gets a
\* status 0 record whose statusText is "Error", "Invalid URL" or "Request
\* failed", with empty headers.
C7_AsStated ==
  (bResult # NoResponse /\ C7_Stopped(bPayload)) =>
    /\ bFetches = 0
    /\ bResult.status = 0
    /\ bResult.statusText \in {"Error", "Invalid URL", "Request failed"}
    /\ bResult.headers = EmptyMap

\* The method as the handler reads it: upper-cased, GET when it is missing.
C7_Refused(payload) ==
  /\ payload.kind = "object"
  /\ \/ (payload.method # NoMethod /\ toUpperCase(payload.method) \notin ALLOWED_METHODS)
     \/ UrlMissing(payload)
     \/ NotHttpUrl(payload.url)

\* C7: a request whose method, upper-cased, is not one of the seven (a
\* missing method is GET), or whose URL is missing, unparsable or not
\* http(s), never reaches fetch and gets the record {status 0, "Invalid
\* request", empty headers, size 0}.
C7_RefusedBeforeFetch ==
  (bResult # NoResponse /\ C7_Refused(bPayload)) =>
    /\ bFetches = 0
    /\ bResult.status = 0
    /\ bResult.statusText = "Invalid request"
    /\ bResult.headers = EmptyMap
    /\ bResult.size = 0

C7_Witness ==
  /\ bResult # NoResponse
  /\ bPayload.kind = "object"
  /\ bPayload.method = "TRACE"
  /\ bPayload.url = <<"https://h/", "p">>
  /\ bFetches = 0

\* C8: the payload of a GET or HEAD draft has no body, whatever bodyType,
\* body and formDataFields are, and its headers are the composed headers
\* with no Content-Type written over them; fetch gets no body either.
C8_NoBodyForGetHead ==
  \A p \in Procs :
    (Dispatched(p) /\ procs[p].req.method \in {"GET", "HEAD"}) =>
      /\ procs[p].payload.body = NoValue
      /\ procs[p].payload.headers = procs[p].built
      /\ FetchArgs(procs[p].payload).body = NoValue

C8_Witness ==
  \E p \in Procs :
    /\ Dispatched(p)
    /\ procs[p].req.method = "HEAD"
    /\ procs[p].req.bodyType = "json"
    /\ Len(Trim(procs[p].req.body)) > 0
    /\ <<"Content-Type">> \in DOMAIN procs[p].built
    /\ procs[p].payload.body = NoValue

\* The content type the body selector produces, in the words of section
\* 4.4: NoValue when it produces none.
Override(req) ==
  IF req.method \in {"GET", "HEAD"} THEN NoValue
  ELSE IF req.bodyType = "json" /\ Trim(req.body) # <<>>
  THEN <<"application/json">>
  ELSE IF /\ req.bodyType = "form-data"
          /\ req.formDataFields.present
          /\ req.formDataFields.items # <<>>
  THEN <<"application/x-www-form-urlencoded">>
  ELSE NoValue

\* C9: when the body selector produces a content type, the Content-Type of
\* the dispatched headers is that content type, whatever an enabled header
\* or an apiKey-in-header auth of that name supplied.
C9_OverrideWins ==
  \A p \in Procs :
    (Dispatched(p) /\ Override(procs[p].req) # NoValue) =>
      /\ <<"Content-Type">> \in DOMAIN procs[p].payload.headers
      /\ procs[p].payload.headers[<<"Content-Type">>] = Override(procs[p].req)

C9_Witness ==
  \E p \in Procs :
    /\ Dispatched(p)
    /\ Override(procs[p].req) = <<"application/json">>
    /\ <<"Content-Type">> \in DOMAIN procs[p].built
    /\ procs[p].built[<<"Content-Type">>] = <<"t">>
    /\ procs[p].payload.headers[<<"Content-Type">>] = <<"application/json">>

\* An enabled header of the draft resolves to this name.
UserHeader(p, name) ==
  \E i \in 1..Len(procs[p].req.headers) :
    /\ procs[p].req.headers[i].enabled
    /\ applyVariables(Trim(procs[p].req.headers[i].key), procs[p].vmap) = name

\* C10: the headers buildHeaders returns carry the auth of the draft, over
\* any enabled header of the same resolved name: Authorization is "Bearer
\* <token>" for bearer, "Basic <base64(username:password)>" for basic, and
\* the entry named by key is value for apiKey placed in the header.
C10_AuthOverridesHeaders ==
  \A p \in Procs :
    Dispatched(p) =>
      LET auth == procs[p].req.auth
          built == procs[p].built
      IN /\ auth.type = "bearer" =>
              /\ <<"Authorization">> \in DOMAIN built
              /\ built[<<"Authorization">>] = <<"Bearer ">> \o auth.token
         /\ auth.type = "basic" =>
              /\ <<"Authorization">> \in DOMAIN built
              /\ built[<<"Authorization">>]
                   = <<"Basic ">> \o btoa(auth.username \o <<":">> \o auth.password)
         /\ (auth.type = "apiKey" /\ auth.addTo = "header") =>
              /\ auth.key \in DOMAIN built
              /\ built[auth.key] = auth.value

C10_Witness ==
  \E p \in Procs :
    /\ Dispatched(p)
    /\ procs[p].req.auth.type = "basic"
    /\ UserHeader(p, <<"Authorization">>)
    /\ procs[p].built[<<"Authorization">>] = <<"Basic ", "d", "T", "p", "w", "M", "Q", "=", "=">>

\* The header an auth writes, and what the request carries for the auth: the
\* value of that header, and the text appended to the resolved URL.
AuthHeaderName(auth) ==
  IF auth.type \in {"basic", "bearer"} THEN <<"Authorization">>
  ELSE IF auth.type = "apiKey" /\ auth.addTo = "header" THEN auth.key
  ELSE NoValue

AuthDerived(req, payload, resolved) ==
  [header |-> IF AuthHeaderName(req.auth) # NoValue
              THEN payload.headers[AuthHeaderName(req.auth)] ELSE NoValue,
   query |-> IF req.auth.type = "apiKey" /\ req.auth.addTo = "query"
             THEN SubSeq(payload.url, Len(resolved) + 2, Len(payload.url))
             ELSE NoValue]

\* The auth fields as typed, in the form they travel in.
AuthLiteral(req, payload) ==
  [header |-> CASE req.auth.type = "basic" ->
                     <<"Basic ">> \o btoa(req.auth.username \o <<":">> \o req.auth.password)
                [] req.auth.type = "bearer" -> <<"Bearer ">> \o req.auth.token
                [] req.auth.type = "apiKey" /\ req.auth.addTo = "header" ->
                     IF req.auth.key = <<"Content-Type">> /\ payload.body # NoValue
                     THEN payload.headers[<<"Content-Type">>]
                     ELSE req.auth.value
                [] OTHER -> NoValue,
   query |-> IF req.auth.type = "apiKey" /\ req.auth.addTo = "query"
             THEN encodeURIComponent(req.auth.key) \o <<"=">>
                    \o encodeURIComponent(req.auth.value)
             ELSE NoValue]

Contributes(item) == item.enabled /\ Trim(item.key) # <<>>

Without(items, i) == SubSeq(items, 1, i - 1) \o SubSeq(items, i + 1, Len(items))

\* What the call of the utils function returns for another list of rows.
ResultFor(items) ==
  IF call.fn = "buildUrl" THEN buildUrl(call.text, items, call.vars)
  ELSE buildHeaders(items, call.auth, call.vars)

\* C12: taking a disabled or blank-key row out of the list given to buildUrl
\* or buildHeaders changes nothing in what is returned; when no row of the
\* params is enabled with a non-blank key, buildUrl returns the resolved
\* base URL.
C12_SkippedRowsContributeNothing ==
  (ret.done /\ call.fn \in {"buildUrl", "buildHeaders"}) =>
    /\ \A i \in 1..Len(call.items) :
         ~Contributes(call.items[i]) => ResultFor(Without(call.items, i)) = ret.value
    /\ (call.fn = "buildUrl" /\ \A i \in 1..Len(call.items) : ~Contributes(call.items[i]))
         => ret.value = applyVariables(call.text, call.vars)

C12_Witness ==
  /\ ret.done
  /\ call.fn = "buildUrl"
  /\ call.text = <<"https://h/", "p">>
  /\ call.items = <<kv(<<"x">>, <<"y">>, FALSE), kv(<<"k">>, <<"v">>, TRUE),
                    kv(<<" ">>, <<"y">>, TRUE)>>
  /\ ret.value = <<"https://h/", "p", "?", "k", "=", "v">>

\* The query block of the rows that count.
QueryBlock(items, vmap) ==
  LET rows == SelectSeq(items, Contributes)
  IN Join([i \in 1..Len(rows) |-> QueryPair(rows[i], vmap)], <<"&">>)

\* C13: with at least one selected parameter, what buildUrl returns is the
\* resolved base URL up to its first '#' (all of it when it has none), then
\* '&' if that part holds a '?' and '?' if not, then the query block, then
\* the fragment from the '#' on, unchanged; the first '#' of the result is
\* the one of the fragment.
C13_QueryBeforeFragment ==
  (/\ ret.done
   /\ call.fn = "buildUrl"
   /\ \E i \in 1..Len(call.items) : Contributes(call.items[i])) =>
    LET base == applyVariables(call.text, call.vars)
        h == IndexOf(base, "#")
        before == IF h = 0 THEN base ELSE SubSeq(base, 1, h - 1)
        fragment == IF h = 0 THEN <<>> ELSE SubSeq(base, h, Len(base))
        block == QueryBlock(call.items, call.vars)
        out == ret.value
        n == Len(before)
    IN /\ Len(out) = n + 1 + Len(block) + Len(fragment)
       /\ SubSeq(out, 1, n) = before
       /\ out[n + 1] = (IF Includes(before, "?") THEN "&" ELSE "?")
       /\ SubSeq(out, n + 2, n + 1 + Len(block)) = block
       /\ SubSeq(out, n + 2 + Len(block), Len(out)) = fragment
       /\ IndexOf(out, "#") = (IF h = 0 THEN 0 ELSE n + 2 + Len(block))

C13_Witness ==
  /\ ret.done
  /\ call.fn = "buildUrl"
  /\ call.text = <<"https://h/", "p", "?", "a", "=", "1", "#", "x">>
  /\ call.items = <<kv(<<"k">>, <<"v">>, TRUE)>>
  /\ ret.value = <<"https://h/", "p", "?", "a", "=", "1", "&", "k", "=", "v", "#", "x">>

\* An occurrence of a placeholder in a text, said without scanning: s[i..j]
\* is two opening braces, blanks, a name, blanks, two closing braces.
IsPlaceholderAt(s, i, j) ==
  /\ i >= 1 /\ j <= Len(s) /\ j >= i + 4
  /\ s[i] = "{" /\ s[i + 1] = "{" /\ s[j - 1] = "}" /\ s[j] = "}"
  /\ \E a \in (i + 2)..(j - 2) : \E b \in a..(j - 2) :
       /\ \A k \in (i + 2)..(a - 1) : s[k] \in WhiteSyms
       /\ \A k \in a..b : s[k] \in WordSyms
       /\ \A k \in (b + 1)..(j - 2) : s[k] \in WhiteSyms

Occurrences(s) ==
  { o \in (1..Len(s)) \X (1..Len(s)) : IsPlaceholderAt(s, o[1], o[2]) }

NameAt(s, o) ==
  LET NotBlank(sym) == sym \notin WhiteSyms
  IN SelectSeq(SubSeq(s, o[1] + 2, o[2] - 2), NotBlank)

\* The text with each occurrence replaced by the value of its name, by the
\* empty text when the map has no such name, and every other symbol kept
\* where it is.
RECURSIVE SpliceFrom(_, _, _)
SpliceFrom(s, i, vmap) ==
  IF i > Len(s) THEN <<>>
  ELSE IF \E j \in 1..Len(s) : IsPlaceholderAt(s, i, j)
  THEN LET j == CHOOSE k \in 1..Len(s) : IsPlaceholderAt(s, i, k)
           name == NameAt(s, <<i, j>>)
       IN (IF name \in DOMAIN vmap THEN vmap[name] ELSE <<>>)
            \o SpliceFrom(s, j + 1, vmap)
  ELSE <<s[i]>> \o SpliceFrom(s, i + 1, vmap)

Resolved == ret.done /\ call.fn = "applyVariables"

C15_OnlyOccurrencesChange ==
  Resolved =>
    /\ Occurrences(call.text) = {} => ret.value = call.text
    /\ ret.value = SpliceFrom(call.text, 1, call.vars)

C15_Witness ==
  /\ Resolved
  /\ call.text = <<"{", "{", "{", "a", "}", "}", "b">>
  /\ call.vars = (<<"a">> :> <<"x">>)
  /\ ret.value = <<"{", "x", "b">>

NoPlaceholder(text) == Occurrences(text) = {}

WellBraced(text) ==
  \A i \in 1..Len(text) :
    text[i] \in {"{", "}"} =>
      \E o \in Occurrences(text) : i \in {o[1], o[1] + 1, o[2] - 1, o[2]}

Templated(req, vmap) ==
  /\ \A name \in DOMAIN vmap : \A i \in 1..Len(vmap[name]) : vmap[name][i] \notin {"{", "}"}
  /\ WellBraced(req.url)
  /\ \A i \in 1..Len(req.headers) :
       WellBraced(req.headers[i].key) /\ WellBraced(req.headers[i].value)

C17_BodyPlaceholdersResolved ==
  \A p \in Procs :
    (/\ Dispatched(p)
     /\ procs[p].req.bodyType \in {"json", "text"}
     /\ procs[p].payload.body # NoValue) =>
      procs[p].payload.body = SpliceFrom(procs[p].req.body, 1, procs[p].vmap)

BeforeFragment(url) ==
  IF IndexOf(url, "#") = 0 THEN url ELSE SubSeq(url, 1, IndexOf(url, "#") - 1)

SearchOf(url) ==
  LET head == BeforeFragment(url)
  IN IF IndexOf(head, "?") = 0 THEN NoValue
     ELSE SubSeq(head, IndexOf(head, "?") + 1, Len(head))

\* The last of the '&'-separated parameters of a query.
LastParameter(search) ==
  IF ~Includes(search, "&") THEN search
  ELSE LET last == CHOOSE i \in 1..Len(search) :
                     search[i] = "&" /\ \A j \in (i + 1)..Len(search) : search[j] # "&"
       IN SubSeq(search, last + 1, Len(search))

ApiKeyInQuery(req) == req.auth.type = "apiKey" /\ req.auth.addTo = "query"

ApiKeyPair(req) ==
  encodeURIComponent(req.auth.key) \o <<"=">> \o encodeURIComponent(req.auth.value)

\* C19: with an apiKey auth placed in the query, the dispatched URL is the
\* resolved URL, then '&' if that holds a '?' and '?' if not, then the
\* percent-encoded key=value pair, and that pair is the last parameter of
\* the query of the dispatched URL.
C19_ApiKeyIsLastQueryParameter ==
  \A p \in Procs :
    (Dispatched(p) /\ ApiKeyInQuery(procs[p].req)) =>
      LET resolved == procs[p].resolvedUrl
          sent == procs[p].payload.url
      IN /\ sent = resolved \o (IF Includes(resolved, "?") THEN <<"&">> ELSE <<"?">>)
                     \o ApiKeyPair(procs[p].req)
         /\ SearchOf(sent) # NoValue
         /\ LastParameter(SearchOf(sent)) = ApiKeyPair(procs[p].req)

\* C20: the entry of an execution has the name and the method of the draft
\* the execution was started with and, as url, buildUrl of that draft; with
\* an apiKey auth placed in the query, the dispatched URL is that url with
\* the key=value pair appended, which the entry does not have.
C20_EntryOfTheDraftAsStarted ==
  \A i \in 1..Len(history) :
    history[i].id \in Procs =>
      LET p == history[i].id
          req == procs[p].req
          entry == history[i]
      IN /\ entry.name = req.name
         /\ entry.method = req.method
         /\ entry.url = buildUrl(req.url, req.params, procs[p].vmap)
         /\ ApiKeyInQuery(req) =>
              /\ entry.url # procs[p].payload.url
              /\ procs[p].payload.url =
                   entry.url \o (IF Includes(entry.url, "?") THEN <<"&">> ELSE <<"?">>)
                     \o ApiKeyPair(req)

\* The second execution was started with another draft before the first
\* was recorded: the draft was edited while the first was in flight.
C20_Witness ==
  /\ InHistory(1)
  /\ ApiKeyInQuery(procs[1].req)
  /\ Started(2)
  /\ procs[2].req # procs[1].req
  /\ \A i \in 1..Len(procs[2].hist) : procs[2].hist[i].id # 1
  /\ request # procs[1].req

\* C21: the value of a variable is put in the place of its placeholder as
\* it is: what applyVariables returns is the resolution of the text before
\* the occurrence, the value, and the resolution of the text after it, so a
\* {{y}} inside the value stays and y is not looked up.
C21_ValueInsertedAsIs ==
  Resolved =>
    \A o \in Occurrences(call.text) :
      NameAt(call.text, o) \in DOMAIN call.vars =>
        ret.value = applyVariables(SubSeq(call.text, 1, o[1] - 1), call.vars)
                      \o call.vars[NameAt(call.text, o)]
                      \o applyVariables(SubSeq(call.text, o[2] + 1, Len(call.text)),
                                        call.vars)

C21_Witness ==
  /\ Resolved
  /\ call.text = <<"{", "{", "a", "}", "}", "b">>
  /\ call.vars = (<<"a">> :> <<"{", "{", "b", "}", "}">>) @@ (<<"b">> :> <<"y">>)
  /\ ret.value = <<"{", "{", "b", "}", "}", "b">>

\* The key a header row is written under.
ResolvedKey(item, vmap) == applyVariables(Trim(item.key), vmap)

\* C22: buildHeaders returns a map for every list of rows; its keys are the
\* resolved keys of the rows that count and the header of the auth, and under
\* a key that the auth does not write it holds the resolved value of the
\* last row, in draft order, that has this resolved key.
C22_LastRowWins ==
  (ret.done /\ call.fn = "buildHeaders") =>
    LET rows == SelectSeq(call.items, Contributes)
        keys == { ResolvedKey(rows[i], call.vars) : i \in 1..Len(rows) }
        authKeys == IF AuthHeaderName(call.auth) = NoValue THEN {}
                    ELSE {AuthHeaderName(call.auth)}
    IN /\ DOMAIN ret.value = keys \cup authKeys
       /\ \A k \in keys \ authKeys :
            LET last == CHOOSE i \in 1..Len(rows) :
                          /\ ResolvedKey(rows[i], call.vars) = k
                          /\ \A j \in (i + 1)..Len(rows) :
                               ResolvedKey(rows[j], call.vars) # k
            IN ret.value[k] = applyVariables(rows[last].value, call.vars)

\* Two rows with different keys as typed and the same resolved key.
C22_Witness ==
  /\ ret.done
  /\ call.fn = "buildHeaders"
  /\ call.vars = (<<"a">> :> <<"b">>)
  /\ call.items = <<kv(Placeholder(<<"a">>), <<"#", "?">>, TRUE),
                    kv(<<" ", "b", " ">>, Placeholder(<<"a">>), TRUE)>>
  /\ ret.value = (<<"b">> :> <<"b">>)

\* The pieces of a text between the occurrences of a separator symbol.
RECURSIVE SplitOn(_, _)
SplitOn(s, sym) ==
  IF ~Includes(s, sym) THEN <<s>>
  ELSE <<SubSeq(s, 1, IndexOf(s, sym) - 1)>>
         \o SplitOn(SubSeq(s, IndexOf(s, sym) + 1, Len(s)), sym)

\* C23: the query block buildUrl adds has one key=value pair for each
\* selected row, a row that is there twice included, and the i-th pair is
\* the one of the i-th selected row of the draft.
C23_PairsInDraftOrder ==
  (/\ ret.done
   /\ call.fn = "buildUrl"
   /\ \E i \in 1..Len(call.items) : Contributes(call.items[i])) =>
    LET rows == SelectSeq(call.items, Contributes)
        base == applyVariables(call.text, call.vars)
        h == IndexOf(base, "#")
        start == (IF h = 0 THEN Len(base) ELSE h - 1) + 2
        stop == Len(ret.value) - (IF h = 0 THEN 0 ELSE Len(base) - h + 1)
        pairs == SplitOn(SubSeq(ret.value, start, stop), "&")
    IN /\ Len(pairs) = Len(rows)
       /\ \A i \in 1..Len(rows) :
            pairs[i] = encodeURIComponent(applyVariables(Trim(rows[i].key), call.vars))
                         \o <<"=">>
                         \o encodeURIComponent(applyVariables(rows[i].value, call.vars))

C23_Witness ==
  /\ ret.done
  /\ call.fn = "buildUrl"
  /\ call.text = <<"https://h/", "p">>
  /\ call.vars = (<<"a">> :> <<"x">>)
  /\ call.items = <<kv(<<" ", "b", " ">>, Placeholder(<<"a">>), TRUE),
                    kv(<<"k">>, <<"v">>, TRUE),
                    kv(<<" ", "b", " ">>, Placeholder(<<"a">>), TRUE)>>
  /\ ret.value = <<"https://h/", "p", "?", "b", "=", "x", "&", "k", "=", "v",
                   "&", "b", "=", "x">>

\* C24: for a draft that is not GET or HEAD with bodyType form-data, when
\* formDataFields is there and not empty the body is the key=value pairs of
\* the enabled fields with a non-blank key, in list order and joined by '&',
\* the trimmed key and the value each resolved and then percent-encoded,
\* and Content-Type is application/x-www-form-urlencoded; when the list is
\* empty or absent there is no body.
C24_FormBody ==
  \A p \in Procs :
    (/\ Dispatched(p)
     /\ procs[p].req.method \notin {"GET", "HEAD"}
     /\ procs[p].req.bodyType = "form-data") =>
      LET fields == procs[p].req.formDataFields
          rows == SelectSeq(fields.items, Contributes)
          Pair(row) ==
            encodeURIComponent(applyVariables(Trim(row.key), procs[p].vmap)) \o <<"=">>
              \o encodeURIComponent(applyVariables(row.value, procs[p].vmap))
          sent == procs[p].payload
      IN IF fields.present /\ fields.items # <<>>
         THEN /\ SplitOn(sent.body, "&") =
                   (IF rows = <<>> THEN <<<<>>>> ELSE [i \in 1..Len(rows) |-> Pair(rows[i])])
              /\ sent.headers[<<"Content-Type">>] = <<"application/x-www-form-urlencoded">>
         ELSE sent.body = NoValue

C24_Witness ==
  /\ Dispatched(1)
  /\ procs[1].req.method = "POST"
  /\ procs[1].vmap = (<<"a">> :> <<"Content-Type">>)
  /\ procs[1].req.formDataFields =
       Fields(<<kv(<<" ", "b", " ">>, <<"a", " ", "=", "&">>, TRUE),
                kv(<<"k">>, Placeholder(<<"a">>), TRUE)>>)
  /\ procs[1].payload.body =
       <<"b", "=", "a", "%20", "%3D", "%26", "&", "k", "=", "Content-Type">>

\* C25: the keys of the variable map are the trimmed keys of the active
\* environment's variables whose key is not blank, and under a key the map
\* holds the current value of the last variable, in list order, that has
\* this trimmed key; with no active environment the map is empty.
C25_VariableMap ==
  (ret.done /\ call.fn = "variableMap") =>
    LET active == { i \in 1..Len(call.items) : call.items[i].id = call.text }
        variables == IF active = {} THEN <<>>
                     ELSE call.items[CHOOSE i \in active : TRUE].variables
        named == { i \in 1..Len(variables) : Trim(variables[i].key) # <<>> }
    IN /\ DOMAIN ret.value = { Trim(variables[i].key) : i \in named }
       /\ \A i \in named :
            (\A j \in named : j > i => Trim(variables[j].key) # Trim(variables[i].key))
              => ret.value[Trim(variables[i].key)] = variables[i].currentValue

C25_Witness ==
  /\ ret.done
  /\ call.fn = "variableMap"
  /\ call.text = <<"dev">>
  /\ call.items[1].variables = <<ev(<<" ", "a", " ">>, <<"1">>, <<"y">>),
                                 ev(<<" ">>, <<"1">>, <<"v">>),
                                 ev(<<"a">>, <<"1">>, <<"x">>)>>
  /\ ret.value = (<<"a">> :> <<"x">>)

\* C26: a draft has exactly one auth variant, and choosing another type in
\* the select leaves the draft with a fresh auth of that type: exactly the
\* variant's fields, text fields empty, apiKey placed in the header, whatever
\* the earlier variants held, also after switching away and back; the rest of
\* the draft is as it was.
VariantFields(type) ==
  CASE type = "none" -> {"type"}
    [] type = "basic" -> {"type", "username", "password"}
    [] type = "bearer" -> {"type", "token"}
    [] type = "apiKey" -> {"type", "key", "value", "addTo"}

C26_SwitchGivesFreshAuth ==
  (ret.done /\ call.fn = "authType") =>
    LET a == ret.value.auth
        t == call.types[Len(call.types)]
    IN /\ a.type = t
       /\ DOMAIN a = VariantFields(t)
       /\ \A f \in DOMAIN a \ {"type", "addTo"} : a[f] = <<>>
       /\ t = "apiKey" => a.addTo = "header"
       /\ [ret.value EXCEPT !.auth = call.draft.auth] = call.draft

\* A basic auth with credentials, switched to bearer and back to basic.
C26_Witness ==
  /\ ret.done
  /\ call.fn = "authType"
  /\ call.draft.auth.type = "basic"
  /\ call.draft.auth.username # <<>>
  /\ call.types = <<"bearer", "basic">>
  /\ ret.value.auth = [type |-> "basic", username |-> <<>>, password |-> <<>>]

\* A dispatched request of handleSend is outstanding from setSending(true)
\* until the invocation has run its finally block.
Outstanding(p) == procs[p].pc \in {"awaiting", "resolved", "rejected"}

\* C27: the sending flag is true exactly when some request dispatched by
\* handleSend is still outstanding: with overlapping invocations it stays
\* true until the last one completes, and it is false once all have.
C27_SendingIffOutstanding ==
  sending <=> \E p \in Procs : Outstanding(p)

\* The tab a handleSend invocation was started from: the id of the request
\* it closed over.
SentFrom(p) == procs[p].req.id

Completes(p) == procs[p].pc \in {"resolved", "rejected"} /\ procs'[p].pc = "done"

\* C28: the completion of a request that was sent from a tab other than
\* the active one leaves the displayed response as the tab operation that
\* cleared it left it: the displayed response belongs to the active tab.
C28_ResponseOfActiveTab ==
  [][\A p \in Procs :
       (Completes(p) /\ SentFrom(p) # request.id) => response' = response]_vars

\* C30: the tab list is never empty, activeTabId is the id of one of the
\* tabs once the effects of a render have run, and the current request is
\* the tab with that id.
C30_ActiveTabExists ==
  /\ Len(tabs) > 0
  /\ activeTabId \in TabIds(tabs)
  /\ request \in { tabs[i] : i \in 1..Len(tabs) }
  /\ request.id = activeTabId

\* The only tab was closed and a fresh default request took its place.
C30_Witness ==
  /\ Len(tabs) = 1
  /\ tabs[1].id > FirstId + 1
  /\ tabs[1] = newRequest(tabs[1].id)
  /\ activeTabId = tabs[1].id
  /\ request = tabs[1]

FragmentOf(url) ==
  IF IndexOf(url, "#") = 0 THEN <<>> ELSE SubSeq(url, IndexOf(url, "#"), Len(url))

\* C29: with an apiKey auth placed in the query and a resolved URL that holds
\* a '#', the dispatched URL is the part before the '#', then '&' if that
\* part holds a '?' and '?' if not, then the key=value pair, then the
\* fragment: the pair is in the query, as buildUrl's own parameters are.
C29_ApiKeyBeforeFragment ==
  \A p \in Procs :
    (Dispatched(p) /\ ApiKeyInQuery(procs[p].req) /\ Includes(procs[p].resolvedUrl, "#")) =>
      LET resolved == procs[p].resolvedUrl
          head == BeforeFragment(resolved)
      IN procs[p].payload.url =
           head \o (IF Includes(head, "?") THEN <<"&">> ELSE <<"?">>)
                \o ApiKeyPair(procs[p].req) \o FragmentOf(resolved)

====
